---- MODULE Spec2Model ----
(***************************************************************************)
(* Model of src/generate_docs.py: the cached, thread-pooled documentation  *)
(* pipeline (process_file / generate_documentation /                       *)
(* traverse_and_update_files) and its pure string helpers.                 *)
(*                                                                         *)
(* Text is a sequence of one-character strings.  Two specifications:       *)
(*   Spec      - the pipeline: runs of the script over the source files,   *)
(*               pool workers interleaved at the granularity of the        *)
(*               statements that touch shared state (CACHE, the files).    *)
(*   SpecStrip - the pure helpers applied to every text up to MaxLen.      *)
(***************************************************************************)
EXTENDS Integers, Sequences, FiniteSets, TLC

VARIABLES
    \* ---- pipeline (Spec) ----
    disk,        \* path -> text of the source file on disk
    fault,       \* <<path, kind>>: the file (if any) whose open() raises
    cacheFile,   \* cache.json: hash -> documentation
    CACHE,       \* the module-level dict CACHE
    txt,         \* updated_files.txt: sequence of paths (<<>> = absent)
    mainPc,      \* position of the main thread
    nextIdx,     \* executor.map: index of the next result to be yielded
    updated,     \* updated_files being built by list(filter(None, ...))
    task,        \* path -> position of the pool task process_file(path)
    clean,       \* path -> local clean_code of the task
    doc,         \* path -> local response / documentation of the task
    result,      \* path -> return value of the task (0 = None)
    called,      \* path -> the task sent a request to the service (history)
    before,      \* path -> text on disk when the run started (history)
    \* ---- pure helpers (SpecStrip) ----
    op,          \* which helper was applied last
    arg,         \* the content argument
    docArg,      \* the documentation argument
    res          \* the value returned

pipeVars == <<disk, fault, cacheFile, CACHE, txt, mainPc, nextIdx, updated,
              task, clean, doc, result, called, before>>
pureVars == <<op, arg, docArg, res>>
vars == <<pipeVars, pureVars>>

-----------------------------------------------------------------------------
(* Bounds and program constants *)

NumFiles == 2          \* number of discovered source files
MaxLen == 8            \* longest content text given to the pure helpers
MaxWrapLen == 6        \* longest content text given to the wrapper
MaxDocLen == 2         \* longest documentation text given to the wrapper

MAX_LINES == 1000
MAX_CHARS == 4000
max_workers == 5

Files == 1..NumFiles
NoFile == 0

Alphabet == {"/", "*", "\n", "a"}

Str(n) == UNION {[1..k -> Alphabet] : k \in 0..n}

\* Python None as a documentation value (not a text over Alphabet)
None == <<"None">>

Min(a, b) == IF a < b THEN a ELSE b

-----------------------------------------------------------------------------
(* Pure string helpers *)

\* str.isspace for the characters of the model
IsSpace(c) == c \in {"\n", " ", "\t"}

RECURSIVE lstrip(_)
lstrip(s) ==
    IF s = <<>> THEN s
    ELSE IF IsSpace(Head(s)) THEN lstrip(Tail(s)) ELSE s

RECURSIVE rstrip(_)
rstrip(s) ==
    IF s = <<>> THEN s
    ELSE IF IsSpace(s[Len(s)]) THEN rstrip(SubSeq(s, 1, Len(s) - 1)) ELSE s

\* str.strip()
strip(s) == rstrip(lstrip(s))

\* s[:n]
Take(s, n) == SubSeq(s, 1, Min(n, Len(s)))

\* str.splitlines(): split at line boundaries, no empty last line
RECURSIVE SplitFrom(_, _, _)
SplitFrom(s, i, cur) ==
    IF i > Len(s) THEN (IF cur = <<>> THEN <<>> ELSE <<cur>>)
    ELSE IF s[i] = "\n" THEN <<cur>> \o SplitFrom(s, i + 1, <<>>)
    ELSE SplitFrom(s, i + 1, Append(cur, s[i]))

splitlines(s) == SplitFrom(s, 1, <<>>)

\* "\n".join(lines)
RECURSIVE JoinLines(_)
JoinLines(lines) ==
    IF lines = <<>> THEN <<>>
    ELSE IF Len(lines) = 1 THEN lines[1]
    ELSE lines[1] \o <<"\n">> \o JoinLines(Tail(lines))

truncate_code(code) == Take(JoinLines(Take(splitlines(code), MAX_LINES)), MAX_CHARS)

\* hashlib.md5(...).hexdigest(): a digest, taken to be collision free
get_code_hash(code) == <<"md5">> \o code

\* positions j at which a "*/" closes a block opened by "/*" at i
Closers(s, i) ==
    {j \in (i + 2)..(Len(s) - 1) : s[j] = "*" /\ s[j + 1] = "/"}

OpensBlock(s, i) ==
    /\ i + 1 <= Len(s)
    /\ s[i] = "/"
    /\ s[i + 1] = "*"
    /\ Closers(s, i) # {}

SetMin(S) == CHOOSE x \in S : \A y \in S : x <= y

\* \s* : first position at or after i that holds no whitespace
RECURSIVE SkipSpace(_, _)
SkipSpace(s, i) ==
    IF i <= Len(s) /\ IsSpace(s[i]) THEN SkipSpace(s, i + 1) ELSE i

\* re.sub(r"/\*.*?\*/\s*", "", s, flags=re.DOTALL) from position i on:
\* leftmost matches, the shortest block, then all whitespace after it
RECURSIVE SubFrom(_, _)
SubFrom(s, i) ==
    IF i > Len(s) THEN <<>>
    ELSE IF OpensBlock(s, i)
         THEN SubFrom(s, SkipSpace(s, SetMin(Closers(s, i)) + 2))
         ELSE <<s[i]>> \o SubFrom(s, i + 1)

extract_existing_code(content) == SubFrom(content, 1)

\* f"/*\n{documentation}\n*/\n{clean_code}"
WrapDoc(documentation, clean_code) ==
    <<"/", "*", "\n">> \o documentation \o <<"\n", "*", "/", "\n">> \o clean_code

\* the text holds a /* ... */ block
HasBlock(s) == \E i \in 1..Len(s) : OpensBlock(s, i)

-----------------------------------------------------------------------------
(* The pipeline: state *)

PlainCode == <<"a">>
BlankCode == <<"\n">>
\* code followed by a comment block: stripping leaves "a\n", whose fingerprint
\* is PlainCode's (splitlines/join drops the final line break)
TrailingBlockCode == <<"a", "\n", "/", "*", "*", "/">>

\* texts a source file holds before the first run or after a developer's edit
Contents == {PlainCode, BlankCode, TrailingBlockCode}

\* texts the generation service answers with
Responses == {<<"d">>, <<>>}

\* the file whose open() raises, and in which mode
Faults == {<<NoFile, "none">>} \cup (Files \X {"unreadable", "unwritable"})

EmptyDict == <<>>

DictSet(d, k, v) == [h \in DOMAIN d \cup {k} |-> IF h = k THEN v ELSE d[h]]

\* bool(documentation)
Truthy(d) == d # None /\ d # <<>>

Running(f) == task[f] \in {"read", "lookup", "request", "store", "return", "check"}

\* Variant of FutureFinished: a future counts as settled as soon as a worker
\* has taken it (the result is not waited for).
FutureFinishedOnceStarted(f) == task[f] # "pending"

\* the future of process_file(f) is settled: Future.result() and the pool's
\* shutdown(wait=True) block until then
FutureFinished(f) == task[f] \in {"done", "raised", "cancelled"}

\* code_hash of the task, lines 43-44
CodeHash(f) == get_code_hash(truncate_code(clean[f]))

PureIdle ==
    /\ op = "none"
    /\ arg = <<>>
    /\ docArg = <<>>
    /\ res = <<>>

Init ==
    /\ disk \in [Files -> Contents]
    /\ fault \in Faults
    /\ cacheFile = EmptyDict
    /\ CACHE = EmptyDict
    /\ txt = <<>>
    /\ mainPc = "idle"
    /\ nextIdx = 1
    /\ updated = <<>>
    /\ task = [f \in Files |-> "idle"]
    /\ clean = [f \in Files |-> <<>>]
    /\ doc = [f \in Files |-> None]
    /\ result = [f \in Files |-> NoFile]
    /\ called = [f \in Files |-> FALSE]
    /\ before = disk
    /\ PureIdle

-----------------------------------------------------------------------------
(* The pipeline: main thread *)

\* A developer edits a source file while the script is not running.
EditFile(f, c) ==
    /\ mainPc \in {"idle", "returned", "aborted"}
    /\ c # disk[f]
    /\ disk' = [disk EXCEPT ![f] = c]
    /\ mainPc' = "idle"
    /\ UNCHANGED <<fault, cacheFile, CACHE, txt, nextIdx, updated, task, clean,
                   doc, result, called, before, pureVars>>

\* The script starts: CACHE is loaded from cache.json (line 27), the files are
\* discovered (101-104) and executor.map submits one future per file (107-108).
StartRun ==
    /\ mainPc \in {"idle", "returned", "aborted"}
    /\ CACHE' = cacheFile
    /\ mainPc' = "map"
    /\ nextIdx' = 1
    /\ updated' = <<>>
    /\ task' = [f \in Files |-> "pending"]
    /\ clean' = [f \in Files |-> <<>>]
    /\ doc' = [f \in Files |-> None]
    /\ result' = [f \in Files |-> NoFile]
    /\ called' = [f \in Files |-> FALSE]
    /\ before' = disk
    /\ UNCHANGED <<disk, fault, cacheFile, txt, pureVars>>

\* list(filter(None, executor.map(...))) takes the next result in submission
\* order; a task's exception is re-raised here, and the iterator's finally
\* clause cancels the futures that have not started.
CollectResult ==
    /\ mainPc = "map"
    /\ nextIdx <= NumFiles
    /\ FutureFinished(nextIdx)
    /\ IF task[nextIdx] = "raised"
       THEN /\ task' = [f \in Files |->
                          IF task[f] = "pending" THEN "cancelled" ELSE task[f]]
            /\ mainPc' = "unwinding"
            /\ UNCHANGED <<nextIdx, updated>>
       ELSE /\ updated' = IF result[nextIdx] # NoFile
                          THEN Append(updated, result[nextIdx]) ELSE updated
            /\ nextIdx' = nextIdx + 1
            /\ UNCHANGED <<task, mainPc>>
    /\ UNCHANGED <<disk, fault, cacheFile, CACHE, txt, clean, doc, result,
                   called, before, pureVars>>

\* End of the with block, all results taken: shutdown(wait=True).
ExitPool ==
    /\ mainPc = "map"
    /\ nextIdx > NumFiles
    /\ \A f \in Files : FutureFinished(f)
    /\ mainPc' = "write_list"
    /\ UNCHANGED <<disk, fault, cacheFile, CACHE, txt, nextIdx, updated, task,
                   clean, doc, result, called, before, pureVars>>

\* End of the with block while the exception propagates: shutdown(wait=True),
\* then the exception leaves traverse_and_update_files and ends the script.
ExitPoolRaising ==
    /\ mainPc = "unwinding"
    /\ \A f \in Files : FutureFinished(f)
    /\ mainPc' = "aborted"
    /\ UNCHANGED <<disk, fault, cacheFile, CACHE, txt, nextIdx, updated, task,
                   clean, doc, result, called, before, pureVars>>

\* Lines 110-112: updated_files.txt is written only when a file was updated.
WriteUpdatedList ==
    /\ mainPc = "write_list"
    /\ txt' = IF updated # <<>> THEN updated ELSE txt
    /\ mainPc' = "dump"
    /\ UNCHANGED <<disk, fault, cacheFile, CACHE, nextIdx, updated, task, clean,
                   doc, result, called, before, pureVars>>

\* Line 114: json.dump(CACHE, open(CACHE_FILE, "w")), then return (116).
DumpCache ==
    /\ mainPc = "dump"
    /\ cacheFile' = CACHE
    /\ mainPc' = "returned"
    /\ UNCHANGED <<disk, fault, CACHE, txt, nextIdx, updated, task, clean, doc,
                   result, called, before, pureVars>>

-----------------------------------------------------------------------------
(* The pipeline: pool workers *)

\* A worker thread takes the oldest queued work item.
StartTask(f) ==
    /\ task[f] = "pending"
    /\ \A g \in Files : g < f => task[g] # "pending"
    /\ Cardinality({g \in Files : Running(g)}) < max_workers
    /\ task' = [task EXCEPT ![f] = "read"]
    /\ UNCHANGED <<disk, fault, cacheFile, CACHE, txt, mainPc, nextIdx, updated,
                   clean, doc, result, called, before, pureVars>>

\* process_file, lines 63-69: read and strip; empty content returns None.
ReadFile(f) ==
    /\ task[f] = "read"
    /\ IF fault = <<f, "unreadable">>
       THEN /\ task' = [task EXCEPT ![f] = "raised"]
            /\ UNCHANGED clean
       ELSE LET original_content == strip(disk[f])
            IN IF original_content = <<>>
               THEN /\ task' = [task EXCEPT ![f] = "done"]
                    /\ UNCHANGED clean
               ELSE /\ clean' = [clean EXCEPT
                                   ![f] = extract_existing_code(original_content)]
                    /\ task' = [task EXCEPT ![f] = "lookup"]
    /\ UNCHANGED <<disk, fault, cacheFile, CACHE, txt, mainPc, nextIdx, updated,
                   doc, result, called, before, pureVars>>

\* generate_documentation, lines 43-46: the membership test and the hit.
CacheLookup(f) ==
    /\ task[f] = "lookup"
    /\ IF CodeHash(f) \in DOMAIN CACHE
       THEN /\ doc' = [doc EXCEPT ![f] = CACHE[CodeHash(f)]]
            /\ task' = [task EXCEPT ![f] = "check"]
       ELSE /\ task' = [task EXCEPT ![f] = "request"]
            /\ UNCHANGED doc
    /\ UNCHANGED <<disk, fault, cacheFile, CACHE, txt, mainPc, nextIdx, updated,
                   clean, result, called, before, pureVars>>

\* Lines 50-55: the request to the service answers with a text.
RequestOk(f, r) ==
    /\ task[f] = "request"
    /\ called' = [called EXCEPT ![f] = TRUE]
    /\ doc' = [doc EXCEPT ![f] = r]
    /\ task' = [task EXCEPT ![f] = "store"]
    /\ UNCHANGED <<disk, fault, cacheFile, CACHE, txt, mainPc, nextIdx, updated,
                   clean, result, before, pureVars>>

\* Lines 58-60: the request raises; generate_documentation returns None.
RequestFail(f) ==
    /\ task[f] = "request"
    /\ called' = [called EXCEPT ![f] = TRUE]
    /\ doc' = [doc EXCEPT ![f] = None]
    /\ task' = [task EXCEPT ![f] = "check"]
    /\ UNCHANGED <<disk, fault, cacheFile, CACHE, txt, mainPc, nextIdx, updated,
                   clean, result, before, pureVars>>

\* Line 56: CACHE[code_hash] = response text.
StoreCache(f) ==
    /\ task[f] = "store"
    /\ CACHE' = DictSet(CACHE, CodeHash(f), doc[f])
    /\ task' = [task EXCEPT ![f] = "return"]
    /\ UNCHANGED <<disk, fault, cacheFile, txt, mainPc, nextIdx, updated, clean,
                   doc, result, called, before, pureVars>>

\* Line 57: return CACHE[code_hash].
ReturnCached(f) ==
    /\ task[f] = "return"
    /\ doc' = [doc EXCEPT ![f] = CACHE[CodeHash(f)]]
    /\ task' = [task EXCEPT ![f] = "check"]
    /\ UNCHANGED <<disk, fault, cacheFile, CACHE, txt, mainPc, nextIdx, updated,
                   clean, result, called, before, pureVars>>

\* Variant of WriteFile: the file is written whatever generate_documentation
\* returned (no "if documentation").
WriteFileAlways(f) ==
    /\ task[f] = "check"
    /\ IF fault = <<f, "unwritable">>
       THEN /\ task' = [task EXCEPT ![f] = "raised"]
            /\ UNCHANGED <<disk, result>>
       ELSE /\ disk' = [disk EXCEPT ![f] = WrapDoc(doc[f], clean[f])]
            /\ result' = [result EXCEPT ![f] = f]
            /\ task' = [task EXCEPT ![f] = "done"]
    /\ UNCHANGED <<fault, cacheFile, CACHE, txt, mainPc, nextIdx, updated, clean,
                   doc, called, before, pureVars>>

\* Variant of WriteFile: the documentation is put before the content as read,
\* prior blocks included (as the uncached script does).
WriteFileNoStrip(f) ==
    /\ task[f] = "check"
    /\ IF Truthy(doc[f])
       THEN IF fault = <<f, "unwritable">>
            THEN /\ task' = [task EXCEPT ![f] = "raised"]
                 /\ UNCHANGED <<disk, result>>
            ELSE /\ disk' = [disk EXCEPT ![f] = WrapDoc(doc[f], strip(disk[f]))]
                 /\ result' = [result EXCEPT ![f] = f]
                 /\ task' = [task EXCEPT ![f] = "done"]
       ELSE /\ task' = [task EXCEPT ![f] = "done"]
            /\ UNCHANGED <<disk, result>>
    /\ UNCHANGED <<fault, cacheFile, CACHE, txt, mainPc, nextIdx, updated, clean,
                   doc, called, before, pureVars>>

\* process_file, lines 72-78: write back only a truthy documentation.
WriteFile(f) ==
    /\ task[f] = "check"
    /\ IF Truthy(doc[f])
       THEN IF fault = <<f, "unwritable">>
            THEN /\ task' = [task EXCEPT ![f] = "raised"]
                 /\ UNCHANGED <<disk, result>>
            ELSE /\ disk' = [disk EXCEPT ![f] = WrapDoc(doc[f], clean[f])]
                 /\ result' = [result EXCEPT ![f] = f]
                 /\ task' = [task EXCEPT ![f] = "done"]
       ELSE /\ task' = [task EXCEPT ![f] = "done"]
            /\ UNCHANGED <<disk, result>>
    /\ UNCHANGED <<fault, cacheFile, CACHE, txt, mainPc, nextIdx, updated, clean,
                   doc, called, before, pureVars>>

Next ==
    \/ \E f \in Files, c \in Contents : EditFile(f, c)
    \/ StartRun
    \/ CollectResult
    \/ ExitPool
    \/ ExitPoolRaising
    \/ WriteUpdatedList
    \/ DumpCache
    \/ \E f \in Files : StartTask(f)
    \/ \E f \in Files : ReadFile(f)
    \/ \E f \in Files : CacheLookup(f)
    \/ \E f \in Files, r \in Responses : RequestOk(f, r)
    \/ \E f \in Files : RequestFail(f)
    \/ \E f \in Files : StoreCache(f)
    \/ \E f \in Files : ReturnCached(f)
    \/ \E f \in Files : WriteFile(f)

Spec == Init /\ [][Next]_vars

-----------------------------------------------------------------------------
(* The pure helpers applied to every text up to MaxLen *)

PipeIdle ==
    /\ disk = [f \in Files |-> PlainCode]
    /\ fault = <<NoFile, "none">>
    /\ cacheFile = EmptyDict
    /\ CACHE = EmptyDict
    /\ txt = <<>>
    /\ mainPc = "idle"
    /\ nextIdx = 1
    /\ updated = <<>>
    /\ task = [f \in Files |-> "idle"]
    /\ clean = [f \in Files |-> <<>>]
    /\ doc = [f \in Files |-> None]
    /\ result = [f \in Files |-> NoFile]
    /\ called = [f \in Files |-> FALSE]
    /\ before = disk

InitStrip ==
    /\ PipeIdle
    /\ op = "input"
    /\ arg \in Str(MaxLen)
    /\ docArg = <<>>
    /\ res = <<>>

\* res = extract_existing_code(arg)
CallStrip ==
    /\ op = "input"
    /\ res' = extract_existing_code(arg)
    /\ op' = "strip"
    /\ UNCHANGED <<arg, docArg, pipeVars>>

\* res = extract_existing_code(extract_existing_code(arg))
CallStripAgain ==
    /\ op = "strip"
    /\ res' = extract_existing_code(res)
    /\ op' = "strip2"
    /\ UNCHANGED <<arg, docArg, pipeVars>>

\* res = the text process_file writes for documentation d and content arg
CallWrap(d) ==
    /\ op = "input"
    /\ Len(arg) <= MaxWrapLen
    /\ docArg' = d
    /\ res' = WrapDoc(d, arg)
    /\ op' = "wrap"
    /\ UNCHANGED <<arg, pipeVars>>

\* res = extract_existing_code(wrapped text)
CallStripWrapped ==
    /\ op = "wrap"
    /\ res' = extract_existing_code(res)
    /\ op' = "unwrap"
    /\ UNCHANGED <<arg, docArg, pipeVars>>

NextStrip ==
    \/ CallStrip
    \/ CallStripAgain
    \/ \E d \in Str(MaxDocLen) : CallWrap(d)
    \/ CallStripWrapped

SpecStrip == InitStrip /\ [][NextStrip]_vars

-----------------------------------------------------------------------------
(* Claims *)

RunOver == mainPc \in {"returned", "aborted"}

\* C1: a file is written only after generate_documentation returned a
\* successful result for it: a file whose content is empty or whose generation
\* failed holds, during and after the run, the text it held before the run.
C1_WriteOnlyAfterSuccess ==
    mainPc # "idle" =>
        \A f \in Files :
            /\ disk[f] # before[f] =>
                   /\ task[f] = "done"
                   /\ result[f] = f
                   /\ Truthy(doc[f])
                   /\ strip(before[f]) # <<>>
            /\ (task[f] = "done" /\ ~Truthy(doc[f])) => disk[f] = before[f]

\* C1 witness: a run is over in which one file's request failed and left the
\* file alone while another file was rewritten.
C1_Witness ==
    /\ mainPc = "returned"
    /\ \E f, g \in Files :
          /\ called[f] /\ doc[f] = None /\ task[f] = "done"
          /\ disk[f] = before[f]
          /\ result[g] = g /\ disk[g] # before[g]

\* C2 (as claimed): no request is sent to the generation service for a
\* fingerprint that CACHE already holds, under every interleaving.
C2_NoRequestOnceCached ==
    [][\A f \in Files :
          (called'[f] /\ ~called[f]) => CodeHash(f) \notin DOMAIN CACHE]_vars

\* C3 (as claimed): when a file's open() raised, the run still ends by
\* returning, with every other file processed.
C3_OneFailureNeverAborts ==
    (RunOver /\ \E f \in Files : task[f] = "raised") =>
        /\ mainPc = "returned"
        /\ \A g \in Files : task[g] \in {"done", "raised"}

\* C4 (as claimed): once a run is over, cache.json holds every entry of CACHE,
\* whatever failed for single files.
C4_CachePersistedAtEnd ==
    RunOver =>
        \A h \in DOMAIN CACHE : h \in DOMAIN cacheFile /\ cacheFile[h] = CACHE[h]

\* C5: while the main thread is at json.dump(CACHE, ...), no process_file call
\* is running or still to be started.
C5_DumpAfterJoin ==
    mainPc = "dump" =>
        \A f \in Files :
            task[f] \notin {"pending", "read", "lookup", "request", "store",
                            "return", "check"}

\* C5 witness: the main thread is at the dump after a run in which a worker
\* stored a generated text in CACHE.
C5_Witness ==
    /\ mainPc = "dump"
    /\ \E f \in Files : called[f] /\ Truthy(doc[f]) /\ task[f] = "done"
    /\ CACHE # cacheFile

\* C6 (as claimed): no two workers are at the same time between the membership
\* test and the store on CACHE for the same key.
C6_LookupStoreMutex ==
    \A f, g \in Files :
        (f # g /\ task[f] \in {"request", "store"} /\ task[g] \in {"request", "store"})
            => CodeHash(f) # CodeHash(g)

C8_StripIdempotent ==
    op = "strip2" => res = extract_existing_code(arg)

\* C9 (as claimed): stripping the text written for any documentation and a
\* content without a /* */ block gives back the content.
C9_StripWrapRoundTrip ==
    (op = "unwrap" /\ ~HasBlock(arg)) => res = arg

\* C10 (as claimed): after a completed run updated_files.txt lists exactly the
\* paths that run updated.
C10_ListIsLastRun ==
    mainPc = "returned" => txt = updated

====
